---------------------------- MODULE Spec2Model ----------------------------
(***************************************************************************)
(* A model of omf/data.py: the Colormap, Legend, ColorData and MappedData  *)
(* classes, their per-field validators (run by the property framework      *)
(* before a field assignment is stored), their whole-object validators and *)
(* MappedData.value_dict.                                                  *)
(*                                                                         *)
(* Every raise in data.py is a ValueError (or an error raised by numpy or  *)
(* by Python's indexing); the model tells the failures apart by message.   *)
(***************************************************************************)
EXTENDS Integers, Sequences, FiniteSets, TLC

VARIABLES
    cm,     \* a ScalarColormap: gradient, min_value, max_value
    leg,    \* a Legend: values, colors
    cd,     \* a ColorData: array
    md,     \* a MappedData: array, legends
    obj,    \* which of the four objects this behaviour exercises
    last,   \* the latest operation: its name, argument, outcome and the object before it
    prev    \* the operation before the latest one (kept for the colormap)

vars == <<cm, leg, cd, md, obj, last, prev>>

---------------------------------------------------------------------------
(* Bounds of the model.                                                    *)

MaxValue == 11          \* min_value / max_value are drawn from 2..MaxValue
MaxLen == 2             \* longest enumerated index array
MaxLegends == 2         \* longest list of legends
MaxLegendLen == 3       \* longest legend (values or colors)
MaxRows == 2            \* most rows of a colour array

---------------------------------------------------------------------------
(* Python values.                                                          *)

\* An attribute that is None is the empty tuple; a set attribute is <<v>>.
None == <<>>
Some(v) == <<v>>
Val(o) == o[1]

\* The outcome of a call that returns normally.
OK == "ok"

\* len(change['value']) != 128
GradientLength == 128
\* np.clip(..., 0, 255)
ClipLow == 0
ClipHigh == 255
\* shape=('*', 3)
Width == 3
\* the "no data" index
NoData == -1

ErrGradient == "ValueError: Colormap gradient must be length 128"
ErrMinMax == "ValueError: Colormap min_value must be less than max_value"
ErrMaxMin == "ValueError: Colormap max_value must be greater than min_value"
ErrLengths == "ValueError: length of colors does not match length of values"
ErrNotInt == "ValueError: DataMap indices must be integers"
ErrMinInd == "ValueError: DataMap indices must be >= -1"
ErrMinIndices == "ValueError: Indices of DataMap must be >= -1"
ErrExceed == "ValueError: Indices of DataMap exceed number of available entries in Legend"
ErrZeroSize == "ValueError: zero-size array to reduction operation which has no identity"
ErrIndex == "IndexError: index out of range"
ErrNoneType == "TypeError: 'NoneType' object"

\* All sequences over S of length 0..n.
SeqsUpTo(S, n) == UNION {[1..k -> S] : k \in 0..n}

\* The elements of a sequence.
Range(s) == {s[k] : k \in 1..Len(s)}

\* np.min / np.max of a non-empty array.
np_min(a) == CHOOSE x \in Range(a) : \A y \in Range(a) : x <= y
np_max(a) == CHOOSE x \in Range(a) : \A y \in Range(a) : x >= y

\* A setter that stores the value whether or not its validator raised.
AssignUnchecked(self, name, value, result) == [self EXCEPT ![name] = value]

\* The framework runs a field's validator before it stores the value: a
\* validator that raises leaves the field as it was.
Assign(self, name, value, result) ==
    IF result = OK THEN [self EXCEPT ![name] = value] ELSE self

---------------------------------------------------------------------------
(* ScalarColormap.                                                         *)

\* A ColorArray enters the colormap's checks only through its length.
ColorArrayOfLen(n) == [len |-> n]

\* A gradient check that rejects only the gradients that are too short.
_check_gradient_length_short(self, value) ==
    IF value.len < GradientLength THEN ErrGradient ELSE OK

_check_gradient_length(self, value) ==
    IF value.len # GradientLength THEN ErrGradient ELSE OK

\* A min_value check that never looks at max_value.
_check_min_unchecked(self, value) == OK

\* A min_value check that also rejects min_value = max_value.
_check_min_strict(self, value) ==
    IF self.max_value # None /\ value >= Val(self.max_value)
    THEN ErrMinMax ELSE OK

_check_min_lt_max(self, value) ==
    IF self.max_value # None /\ value > Val(self.max_value)
    THEN ErrMinMax ELSE OK

\* A max_value check that never looks at min_value.
_check_max_unchecked(self, value) == OK

_check_max_gt_min(self, value) ==
    IF self.min_value # None /\ value < Val(self.min_value)
    THEN ErrMaxMin ELSE OK

\* The values assigned to min_value and max_value (from 2, the smallest value
\* the documented examples assign), and the gradient lengths.
Values == 2..MaxValue
GradientLens == {GradientLength - 1, GradientLength, GradientLength + 1}

\* The record of an operation; entry is what value_dict returned.
Op(name, arg, result, pre) ==
    [op |-> name, arg |-> arg, result |-> result, pre |-> pre, entry |-> <<>>]

NewColormap == [gradient |-> None, min_value |-> None, max_value |-> None]
NewLegend == [values |-> None, colors |-> None]
NewColorData == [array |-> None]
NewMappedData == [array |-> None, legends |-> None]

SetGradient(n) ==
    LET value == ColorArrayOfLen(n)
        r == _check_gradient_length(cm, value)
    IN  /\ obj = "Colormap"
        /\ cm' = Assign(cm, "gradient", Some(value), r)
        /\ last' = Op("gradient", n, r, cm)
        /\ prev' = last
        /\ UNCHANGED <<leg, cd, md, obj>>

SetMinValue(v) ==
    LET r == _check_min_lt_max(cm, v)
    IN  /\ obj = "Colormap"
        /\ cm' = Assign(cm, "min_value", Some(v), r)
        /\ last' = Op("min_value", v, r, cm)
        /\ prev' = last
        /\ UNCHANGED <<leg, cd, md, obj>>

SetMaxValue(v) ==
    LET r == _check_max_gt_min(cm, v)
    IN  /\ obj = "Colormap"
        /\ cm' = Assign(cm, "max_value", Some(v), r)
        /\ last' = Op("max_value", v, r, cm)
        /\ prev' = last
        /\ UNCHANGED <<leg, cd, md, obj>>

NextColormap ==
    \/ \E n \in GradientLens : SetGradient(n)
    \/ \E v \in Values : SetMinValue(v)
    \/ \E v \in Values : SetMaxValue(v)

---------------------------------------------------------------------------
(* Legend.                                                                 *)

\* The values of a legend with n entries: its k-th entry is category k.
LegendValues(n) == [k \in 1..n |-> k]

\* len() of a ColorArray and of a legend's values.
LenColors(a) == a.len
LenValues(a) == Len(a)

\* A length check that raises only when there are fewer colors than values.
_check_lengths_fewer(self) ==
    IF self.colors # None /\ LenColors(Val(self.colors)) < LenValues(Val(self.values))
    THEN ErrLengths ELSE OK

_check_lengths(self) ==
    IF self.colors # None /\ LenColors(Val(self.colors)) # LenValues(Val(self.values))
    THEN ErrLengths ELSE OK

LegendLens == 0..MaxLegendLen

\* values and colors have no validator of their own.
SetValues(n) ==
    /\ obj = "Legend"
    /\ leg' = Assign(leg, "values", Some(LegendValues(n)), OK)
    /\ last' = Op("values", n, OK, leg)
    /\ UNCHANGED <<cm, cd, md, obj, prev>>

SetColors(n) ==
    /\ obj = "Legend"
    /\ leg' = Assign(leg, "colors", Some(ColorArrayOfLen(n)), OK)
    /\ last' = Op("colors", n, OK, leg)
    /\ UNCHANGED <<cm, cd, md, obj, prev>>

\* validate() runs the class validator once the required values are present.
ValidateLegend ==
    /\ obj = "Legend"
    /\ leg.values # None
    /\ last' = Op("validate", None, _check_lengths(leg), leg)
    /\ UNCHANGED <<cm, leg, cd, md, obj, prev>>

NextLegend ==
    \/ \E n \in LegendLens : SetValues(n)
    \/ \E n \in LegendLens : SetColors(n)
    \/ ValidateLegend

---------------------------------------------------------------------------
(* ColorData.                                                              *)

\* np.clip of one component, of a row and of an n x 3 array.
clip(c, lo, hi) == IF c < lo THEN lo ELSE IF c > hi THEN hi ELSE c
np_clip(a, lo, hi) ==
    [r \in 1..Len(a) |-> [k \in 1..Len(a[r]) |-> clip(a[r][k], lo, hi)]]

Int3Array(rows) == [cls |-> "Int3Array", array |-> rows]
ColorArray(rows) == [cls |-> "ColorArray", array |-> rows]

\* A validator that computes the clipped array and drops it.
_clip_colors_dropped(self, value) == value

\* The validator never raises; it replaces the array of an Int3Array value.
_clip_colors(self, value) ==
    IF value.cls = "Int3Array"
    THEN [value EXCEPT !.array = np_clip(value.array, ClipLow, ClipHigh)]
    ELSE value

\* Rows of integers, in and out of range.
IntComponents == {-10, 300}
IntRows == [1..Width -> IntComponents] \cup {<<300, -10, 128>>, <<0, 255, 256>>}
\* Rows of colours: every component is within 0..255.
ColorRows == {<<0, 0, 0>>, <<255, 255, 255>>, <<0, 128, 255>>}

ColorDataInputs ==
    {Int3Array(rows) : rows \in SeqsUpTo(IntRows, MaxRows)}
        \cup {ColorArray(rows) : rows \in SeqsUpTo(ColorRows, MaxRows)}

SetColorArray(value) ==
    /\ obj = "ColorData"
    /\ cd' = Assign(cd, "array", Some(_clip_colors(cd, value)), OK)
    /\ last' = Op("array", value, OK, None)
    /\ UNCHANGED <<cm, leg, md, obj, prev>>

NextColorData == \E value \in ColorDataInputs : SetColorArray(value)

---------------------------------------------------------------------------
(* MappedData.                                                             *)

\* A ScalarArray: the kind of its numpy dtype ("i" integer, "f" float; the
\* array property admits no other) and its elements.  The elements of a
\* float array are written as the integers they equal (1.0 as 1).
ScalarArray(kind, data) == [kind |-> kind, array |-> data]

\* A legend of a MappedData, with n values and no colors.
Legend(n) == [values |-> Some(LegendValues(n)), colors |-> None]

\* seq[j] in Python, on a sequence of length n: positions 0..n-1, and the
\* negative positions -n..-1 count from the end; anything else raises.
\* The result is <<element>>, or None for the IndexError.
PyGetItem(seq, j) ==
    IF 0 <= j /\ j < Len(seq) THEN Some(seq[j + 1])
    ELSE IF -Len(seq) <= j /\ j < 0 THEN Some(seq[Len(seq) + j + 1])
    ELSE None

\* The result of value_dict: whether it raised, and the entry found for each
\* legend, in the order of legends (the dictionary is keyed by legend name).
Returned(entry) == [status |-> OK, entry |-> entry]
Raised(err) == [status |-> err, entry |-> <<>>]

value_dict(self, i) ==
    IF self.legends = None THEN Raised(ErrNoneType)
    ELSE IF Val(self.legends) = <<>> THEN Returned(<<>>)
    ELSE IF self.array = None THEN Raised(ErrNoneType)
    ELSE LET indices == Val(self.array)
             legends == Val(self.legends)
             ind == PyGetItem(indices.array, i)
         IN  IF ind = None THEN Raised(ErrIndex)
             ELSE IF indices.kind # "i" THEN Raised(ErrIndex)
             ELSE IF \E k \in 1..Len(legends) :
                         PyGetItem(Val(legends[k].values), Val(ind)) = None
                  THEN Raised(ErrIndex)
             ELSE Returned([k \in 1..Len(legends) |->
                               Val(PyGetItem(Val(legends[k].values), Val(ind)))])

_validate_min_ind(self, value) ==
    IF value.kind # "i" THEN ErrNotInt
    ELSE IF Len(value.array) = 0 THEN ErrZeroSize
    ELSE IF np_min(value.array) < NoData THEN ErrMinInd
    ELSE OK

\* A legend check that lets the largest index equal the number of entries.
_validate_legends_off_by_one(a, legends) ==
    IF \E k \in 1..Len(legends) : np_max(a) > LenValues(Val(legends[k].values))
    THEN ErrExceed ELSE OK

\* The loop over legends: it raises at the first legend, in list order, that
\* the largest index does not fit.
_validate_legends(a, legends) ==
    IF \E k \in 1..Len(legends) : np_max(a) >= LenValues(Val(legends[k].values))
    THEN ErrExceed ELSE OK

_validate_indices(self) ==
    LET a == Val(self.array).array
    IN  IF Len(a) = 0 THEN ErrZeroSize
        ELSE IF np_min(a) < NoData THEN ErrMinIndices
        ELSE IF Val(self.legends) = <<>> THEN OK
        ELSE _validate_legends(a, Val(self.legends))

\* The arrays assigned: every short array over IndexValues, and three longer
\* or larger ones.
IndexValues == {-2, -1, 0}
LegendSizes == {0, 1, 3}

IntArrays ==
    {ScalarArray("i", d) : d \in SeqsUpTo(IndexValues, MaxLen)}
        \cup {ScalarArray("i", <<0, 1, -1, 3>>), ScalarArray("i", <<0, 1, -1, 2>>),
              ScalarArray("i", <<1, -1>>)}
FloatArrays == {ScalarArray("f", d) : d \in SeqsUpTo(IndexValues, 1)}
ArrayInputs == IntArrays \cup FloatArrays

LegendLists == {[k \in 1..Len(s) |-> Legend(s[k])] : s \in SeqsUpTo(LegendSizes, MaxLegends)}

\* md.array = value, or md.indices = value: the setter of indices assigns array.
SetArray(value) ==
    LET r == _validate_min_ind(md, value)
    IN  /\ obj = "MappedData"
        /\ md' = Assign(md, "array", Some(value), r)
        /\ last' = Op("array", None, r, None)
        /\ UNCHANGED <<cm, leg, cd, obj, prev>>

\* legends has no validator of its own.
SetLegends(legends) ==
    /\ obj = "MappedData"
    /\ md' = Assign(md, "legends", Some(legends), OK)
    /\ last' = Op("legends", None, OK, None)
    /\ UNCHANGED <<cm, leg, cd, obj, prev>>

\* md.array.array = value: the ScalarArray is changed in place, and the
\* validator of MappedData.array does not run.
SetArrayInPlace(value) ==
    /\ obj = "MappedData"
    /\ md.array # None
    /\ md' = [md EXCEPT !.array = Some(value)]
    /\ last' = Op("array.array", None, OK, None)
    /\ UNCHANGED <<cm, leg, cd, obj, prev>>

\* validate() runs the class validator once the required array and legends
\* are present.
ValidateMappedData ==
    /\ obj = "MappedData"
    /\ md.array # None
    /\ md.legends # None
    /\ last' = Op("validate", None, _validate_indices(md), None)
    /\ UNCHANGED <<cm, leg, cd, md, obj, prev>>

\* The positions asked of value_dict: every position of the array, and one
\* before and one past it.
Positions == -1..(IF md.array = None THEN 0 ELSE Len(Val(md.array).array))

ValueDict(i) ==
    /\ obj = "MappedData"
    /\ last' = [Op("value_dict", i, value_dict(md, i).status, None)
                    EXCEPT !.entry = value_dict(md, i).entry]
    /\ UNCHANGED <<cm, leg, cd, md, obj, prev>>

NextMappedData ==
    \/ \E value \in ArrayInputs : SetArray(value)
    \/ \E value \in ArrayInputs : SetArrayInPlace(value)
    \/ \E legends \in LegendLists : SetLegends(legends)
    \/ ValidateMappedData
    \/ \E i \in Positions : ValueDict(i)

---------------------------------------------------------------------------
(* Specifications.  The four objects share no state, so a behaviour        *)
(* exercises one of them.                                                  *)

Objects == {"Colormap", "Legend", "ColorData", "MappedData"}

InitObjects ==
    /\ cm = NewColormap
    /\ leg = NewLegend
    /\ cd = NewColorData
    /\ md = NewMappedData
    /\ last = Op("init", None, OK, None)
    /\ prev = Op("init", None, OK, None)

Init == InitObjects /\ obj \in Objects
InitColormap == InitObjects /\ obj = "Colormap"
InitLegend == InitObjects /\ obj = "Legend"
InitColorData == InitObjects /\ obj = "ColorData"
InitMappedData == InitObjects /\ obj = "MappedData"

Next == NextColormap \/ NextLegend \/ NextColorData \/ NextMappedData

Spec == Init /\ [][Next]_vars
SpecColormap == InitColormap /\ [][NextColormap]_vars
SpecLegend == InitLegend /\ [][NextLegend]_vars
SpecColorData == InitColorData /\ [][NextColorData]_vars
SpecMappedData == InitMappedData /\ [][NextMappedData]_vars

---------------------------------------------------------------------------
(* Properties.                                                             *)

\* The index array and the legends of a MappedData that has both.
Indices(self) == Val(self.array).array
Legends(self) == Val(self.legends)

\* Some index is at or past the end of some legend.
ExceedsSomeLegend(self) ==
    \E k \in 1..Len(Legends(self)) :
        \E x \in Range(Indices(self)) : x >= Len(Val(Legends(self)[k].values))

AllAtLeastNoData(a) == \A x \in Range(a) : x >= -1

HasIndices(self, kind, data) == self.array = Some(ScalarArray(kind, data))

\* C1: with every index >= -1, validating a MappedData fails with the
\* "exceed number of available entries" error exactly when some legend has no
\* more entries than the largest index; indices [0,1,-1,3] fail against one
\* legend of 3 entries and indices [0,1,-1,2] pass.
C1_ExceedIffSomeLegendTooShort ==
    last.op = "validate" /\ obj = "MappedData" =>
        /\ AllAtLeastNoData(Indices(md)) =>
               (last.result = ErrExceed <=> ExceedsSomeLegend(md))
        /\ HasIndices(md, "i", <<0, 1, -1, 3>>) /\ Legends(md) = <<Legend(3)>>
               => last.result = ErrExceed
        /\ HasIndices(md, "i", <<0, 1, -1, 2>>) /\ Legends(md) = <<Legend(3)>>
               => last.result = OK

C1_Witness ==
    /\ obj = "MappedData"
    /\ last.op = "validate"
    /\ last.result = ErrExceed
    /\ HasIndices(md, "i", <<0, 1, -1, 3>>)
    /\ md.legends = Some(<<Legend(3)>>)

\* A second case of C1: the first legend is long enough and the second is not.
C1_SecondLegendTooShort ==
    /\ obj = "MappedData"
    /\ last.op = "validate"
    /\ last.result = ErrExceed
    /\ HasIndices(md, "i", <<0, 1, -1, 2>>)
    /\ md.legends = Some(<<Legend(3), Legend(1)>>)

\* C2: value_dict(i) at a position i of the index array that holds -1 does
\* not raise and returns no legend's last entry.
C2_NoDataIsAbsent ==
    (/\ obj = "MappedData"
     /\ last.op = "value_dict"
     /\ md.array # None
     /\ md.legends # None
     /\ Val(md.array).kind = "i"
     /\ 0 <= last.arg /\ last.arg < Len(Indices(md))
     /\ Indices(md)[last.arg + 1] = -1)
    => /\ last.result = OK
       /\ \A k \in 1..Len(Legends(md)) :
              LET values == Val(Legends(md)[k].values)
              IN  \/ k \notin DOMAIN last.entry
                  \/ values = <<>>
                  \/ last.entry[k] # values[Len(values)]

\* The case of C2 on a legend that is not empty: value_dict(1) on indices
\* [1,-1] and one legend of 3 entries returns the legend's third entry.
C2_ReturnsLastEntry ==
    /\ obj = "MappedData"
    /\ last.op = "value_dict" /\ last.arg = 1
    /\ HasIndices(md, "i", <<1, -1>>)
    /\ md.legends = Some(<<Legend(3)>>)
    /\ last.result = OK
    /\ last.entry = <<3>>

\* C3: whenever min_value and max_value of a colormap are both set,
\* min_value <= max_value.
C3_MinLeMax ==
    cm.min_value # None /\ cm.max_value # None
        => Val(cm.min_value) <= Val(cm.max_value)

C3_Witness ==
    /\ obj = "Colormap"
    /\ cm.min_value # None /\ cm.max_value # None
    /\ prev.op = "min_value" /\ prev.result = OK
    /\ last.op = "max_value" /\ last.result # OK

\* The colormap had min_value = lo and max_value = hi.
Bounds(c, lo, hi) == c.min_value = Some(lo) /\ c.max_value = Some(hi)

\* C4 as stated: from min_value = 5 and max_value = 10, min_value = 11
\* fails, max_value = 4 fails, and min_value = 3 followed by max_value = 2
\* fails at neither step and leaves min_value > max_value.
C4_AsStated ==
    /\ last.op = "min_value" /\ last.arg = 11 /\ Bounds(last.pre, 5, 10)
           => last.result # OK
    /\ last.op = "max_value" /\ last.arg = 4 /\ Bounds(last.pre, 5, 10)
           => last.result # OK
    /\ (/\ prev.op = "min_value" /\ prev.arg = 3 /\ Bounds(prev.pre, 5, 10)
        /\ last.op = "max_value" /\ last.arg = 2)
           => /\ prev.result = OK
              /\ last.result = OK
              /\ Val(cm.min_value) > Val(cm.max_value)

\* C4 as amended: from min_value = 5 and max_value = 10, min_value = 11
\* fails, max_value = 4 fails, and of min_value = 3 followed by
\* max_value = 2 the first succeeds and the second fails, leaving
\* min_value = 3 and max_value = 10.
C4_SecondStepFails ==
    /\ last.op = "min_value" /\ last.arg = 11 /\ Bounds(last.pre, 5, 10)
           => last.result = ErrMinMax /\ Bounds(cm, 5, 10)
    /\ last.op = "max_value" /\ last.arg = 4 /\ Bounds(last.pre, 5, 10)
           => last.result = ErrMaxMin /\ Bounds(cm, 5, 10)
    /\ (/\ prev.op = "min_value" /\ prev.arg = 3 /\ Bounds(prev.pre, 5, 10)
        /\ last.op = "max_value" /\ last.arg = 2)
           => /\ prev.result = OK
              /\ Bounds(last.pre, 3, 10)
              /\ last.result = ErrMaxMin
              /\ Bounds(cm, 3, 10)

C4_Witness ==
    /\ prev.op = "min_value" /\ prev.arg = 3 /\ Bounds(prev.pre, 5, 10)
    /\ last.op = "max_value" /\ last.arg = 2
    /\ last.result = ErrMaxMin

\* C5: assigning min_value = v fails exactly when max_value is set and
\* v > max_value; assigning max_value = v fails exactly when min_value is set
\* and v < min_value; an assignment that does not fail is stored.
C5_RejectedIffInverts ==
    /\ last.op = "min_value" =>
           /\ last.result # OK <=>
                  (last.pre.max_value # None /\ last.arg > Val(last.pre.max_value))
           /\ last.result = OK => cm.min_value = Some(last.arg)
    /\ last.op = "max_value" =>
           /\ last.result # OK <=>
                  (last.pre.min_value # None /\ last.arg < Val(last.pre.min_value))
           /\ last.result = OK => cm.max_value = Some(last.arg)

\* min_value is assigned the value max_value has, and is stored.
C5_Witness ==
    /\ last.op = "min_value"
    /\ last.pre.max_value = Some(last.arg)
    /\ last.pre.min_value # Some(last.arg)
    /\ last.result = OK
    /\ cm.min_value = Some(last.arg)

\* C6: assigning array fails when the element type is not integral and when
\* some index is < -1, and an integral array whose indices are all >= -1 is
\* accepted.
C6_AcceptedIffIntegralAndAtLeastNoData ==
    [][\A value \in ArrayInputs :
          SetArray(value) =>
              (last'.result = OK
                   <=> (value.kind = "i" /\ AllAtLeastNoData(value.array)))]_vars

\* C7: assigning values and colors of a legend always succeeds and stores
\* them, whatever their lengths; validating the legend fails exactly when
\* colors is present and its length differs from that of values.
C7_LengthsCheckedOnValidate ==
    /\ last.op = "values" =>
           last.result = OK /\ leg.values = Some(LegendValues(last.arg))
    /\ last.op = "colors" =>
           last.result = OK /\ leg.colors = Some(ColorArrayOfLen(last.arg))
    /\ last.op = "validate" /\ obj = "Legend" =>
           (last.result # OK
                <=> (leg.colors # None /\ Val(leg.colors).len # Len(Val(leg.values))))

\* values was assigned after colors, with another length, and was stored.
C7_Witness ==
    /\ last.op = "values"
    /\ last.result = OK
    /\ last.pre.colors # None
    /\ leg.colors = last.pre.colors
    /\ Val(leg.colors).len # Len(Val(leg.values))

\* The other order, and the validation that follows: colors longer than values.
C7_ValidateFails ==
    /\ last.op = "validate" /\ obj = "Legend"
    /\ last.result = ErrLengths
    /\ Val(leg.colors).len > Len(Val(leg.values))

\* C8: a field assignment that its validator rejects changes no field of
\* any object.
C8_RejectedAssignmentChangesNothing ==
    [][(last'.op \in {"gradient", "min_value", "max_value", "array"}
            /\ last'.result # OK)
           => (cm' = cm /\ leg' = leg /\ cd' = cd /\ md' = md)]_vars

\* An index array was rejected by a MappedData that holds one already.
C8_Witness ==
    /\ obj = "MappedData"
    /\ last.op = "array"
    /\ last.result = ErrMinInd
    /\ md.array # None
    /\ md.legends # None

\* A bound was rejected by a colormap that holds both bounds.
C8_ColormapRejects ==
    /\ obj = "Colormap"
    /\ last.op = "min_value"
    /\ last.result = ErrMinMax
    /\ cm.min_value # None

Clamp(c) == IF c < 0 THEN 0 ELSE IF c > 255 THEN 255 ELSE c

\* C9: assigning an Int3Array to ColorData.array never fails and stores the
\* array with every component c replaced by min(max(c, 0), 255), so that
\* [[300,-10,128]] is stored as [[255,0,128]]; a ColorArray is stored as given.
C9_Int3ArrayIsClamped ==
    last.op = "array" /\ obj = "ColorData" =>
        /\ last.result = OK
        /\ cd.array # None
        /\ last.arg.cls = "Int3Array" =>
               /\ Val(cd.array).cls = "Int3Array"
               /\ Len(Val(cd.array).array) = Len(last.arg.array)
               /\ \A r \in 1..Len(last.arg.array) : \A k \in 1..3 :
                      Val(cd.array).array[r][k] = Clamp(last.arg.array[r][k])
        /\ last.arg = Int3Array(<< <<300, -10, 128>> >>) =>
               cd.array = Some(Int3Array(<< <<255, 0, 128>> >>))
        /\ last.arg.cls = "ColorArray" => cd.array = Some(last.arg)

C9_Witness ==
    /\ obj = "ColorData"
    /\ last.op = "array"
    /\ last.arg = Int3Array(<< <<300, -10, 128>> >>)
    /\ cd.array = Some(Int3Array(<< <<255, 0, 128>> >>))

\* C10: assigning a gradient fails exactly when its length is not 128,
\* whatever min_value and max_value are, and a gradient that is set has
\* length 128.
C10_GradientLengthIs128 ==
    /\ last.op = "gradient" =>
           /\ last.result = OK <=> last.arg = 128
           /\ last.result = OK => cm.gradient = Some(ColorArrayOfLen(last.arg))
    /\ cm.gradient # None => Val(cm.gradient).len = 128

\* A gradient of 129 colours is rejected by a colormap with both bounds set.
C10_Witness ==
    /\ last.op = "gradient"
    /\ last.arg = 129
    /\ last.result = ErrGradient
    /\ cm.min_value # None /\ cm.max_value # None
    /\ cm.gradient # None

=============================================================================
